---- MODULE Spec2Model ----
(***************************************************************************)
(* Shock annotation and data-quality scoring of the focused economic       *)
(* panel (src/src/data_collection_focused.py), with the reference data of  *)
(* src/config/data_collection_config.py.                                   *)
(*                                                                         *)
(* A DataFrame is a record [dtype, rows]: dtype maps each column name to   *)
(* its pandas dtype, rows is the sequence of rows, each a function from    *)
(* column name to cell.  Cells of columns that can hold a missing value    *)
(* (float64 columns and columns created by .loc enlargement) are <<v>>     *)
(* when present and <<>> (NaN) when missing; cells of country_code, year   *)
(* and of the four columns initialised for every row are bare values.      *)
(* Ratios are exact rationals [n, d] in lowest terms; IEEE rounding of the *)
(* float arithmetic is not modelled.                                       *)
(***************************************************************************)
EXTENDS Integers, Sequences, FiniteSets, TLC

\* ------------------------------------------------------------------------
\* Reference data (config/data_collection_config.py)
\* ------------------------------------------------------------------------
START_YEAR == 1990
END_YEAR == 2023

\* The catalog as a sequence, in dict insertion (= iteration) order.
MAJOR_SHOCKS ==
  << [name |-> "asian_financial_crisis_1997", start |-> 1997, end |-> 1999,
      type |-> "financial", severity |-> "high",
      regional_focus |-> {"THA", "MYS", "PHL", "IDN", "KOR"},
      global_impact |-> TRUE],
     [name |-> "dotcom_recession_2001", start |-> 2001, end |-> 2002,
      type |-> "financial", severity |-> "medium",
      regional_focus |-> {"USA", "GBR", "DEU", "JPN"},
      global_impact |-> TRUE],
     [name |-> "global_financial_crisis_2008", start |-> 2008, end |-> 2010,
      type |-> "financial", severity |-> "very_high",
      regional_focus |-> {"USA", "GBR", "ESP", "IRL", "GRC"},
      global_impact |-> TRUE],
     [name |-> "european_debt_crisis_2010", start |-> 2010, end |-> 2013,
      type |-> "sovereign_debt", severity |-> "high",
      regional_focus |-> {"ESP", "ITA", "PRT", "IRL", "GRC"},
      global_impact |-> FALSE],
     [name |-> "covid_pandemic_2020", start |-> 2020, end |-> 2022,
      type |-> "health_economic", severity |-> "very_high",
      regional_focus |-> {},
      global_impact |-> TRUE] >>

\* ------------------------------------------------------------------------
\* Bounds of the explored inputs
\* ------------------------------------------------------------------------
\* Number of contiguous year blocks the raw panel is assembled from.
MaxBlocks == 2

\* Number of rows of the raw panel: room for a block of 28 years and one of
\* 27 years.
MaxRows == 56

\* Country codes of the rows: one in the focus of the 2001 and 2008 shocks,
\* one in no shock's focus.
Countries == {"USA", "CHN"}

\* Year ranges <<lo, hi>> a block can span: the analysis window, the window
\* with one year before it, 28 years reaching four shocks, 27 years reaching
\* all five, the year shared by two shocks, the last 14 years of the window
\* and the years before the first shock.
YearRanges ==
  {<<1990, 2023>>, <<1989, 2023>>, <<1990, 2017>>, <<1997, 2023>>,
   <<2010, 2010>>, <<2010, 2023>>, <<1990, 1996>>}

\* ------------------------------------------------------------------------
\* DataFrame primitives
\* ------------------------------------------------------------------------
NaN == <<>>

None == [dtype |-> <<>>, rows |-> <<>>]

\* Columns of the raw panel handed to the annotator and the scorer.
RawDtype ==
  [country_code |-> "object", year |-> "int64", gdp_per_capita |-> "float64"]

EmptyPanel == [dtype |-> RawDtype, rows |-> <<>>]

\* dtype of a column after a value of dtype k is written into it.
Upcast(d, k) ==
  IF d = k THEN d
  ELSE IF d = "float64" /\ k = "int64" THEN "float64"
  ELSE "object"

\* df[col] = scalar
SetColumn(df, col, k, v) ==
  [dtype |-> (col :> k) @@ df.dtype,
   rows |-> [i \in DOMAIN df.rows |-> (col :> v) @@ df.rows[i]]]

\* df.loc[mask, col] = value for a column whose cells are never missing;
\* mask is the set of row positions where the boolean Series is True.
LocSetPlain(df, mask, col, v) ==
  [dtype |-> df.dtype,
   rows |-> [i \in DOMAIN df.rows |->
               IF i \in mask THEN [df.rows[i] EXCEPT ![col] = v]
               ELSE df.rows[i]]]

\* df.loc[mask, col] = values where col may not exist yet: the column is
\* created filled with NaN (float64), the masked rows receive their value
\* (values maps a row position to it) and the column is upcast when a value
\* of dtype k was written.
LocSetNew(df, mask, col, k, values) ==
  LET exists == col \in DOMAIN df.dtype
      old == IF exists THEN df.dtype[col] ELSE "float64"
  IN [dtype |-> (col :> (IF mask # {} THEN Upcast(old, k) ELSE old)) @@ df.dtype,
      rows |-> [i \in DOMAIN df.rows |->
                  LET r == df.rows[i]
                  IN IF exists
                     THEN IF i \in mask THEN [r EXCEPT ![col] = <<values[i]>>]
                          ELSE r
                     ELSE (col :> (IF i \in mask THEN <<values[i]>> ELSE NaN)) @@ r]]

\* ------------------------------------------------------------------------
\* add_shock_indicators
\* ------------------------------------------------------------------------
YearsSinceCol(shock_name) == "years_since_" \o shock_name

\* Mutant: the window is taken without its last year.
shock_mask_ExclusiveEnd(r, shock_info) ==
  r.year >= shock_info.start /\ r.year < shock_info.end

\* (df['year'] >= shock_info['start']) & (df['year'] <= shock_info['end'])
shock_mask(r, shock_info) ==
  r.year >= shock_info.start /\ r.year <= shock_info.end

\* Mutant: the end year itself counts as post-shock.
post_shock_mask_FromEnd(r, shock_info) == r.year >= shock_info.end

\* df['year'] > shock_info['end']
post_shock_mask(r, shock_info) == r.year > shock_info.end

\* df['country_code'].isin(shock_info['regional_focus'])
regional_mask(r, shock_info) == r.country_code \in shock_info.regional_focus

\* Mutant: the flag is written for every row of the window, so a later
\* shock replaces what an earlier one set.
ApplyShock_FlagOverwritten(df, shock_info) ==
  LET in_shock == {i \in DOMAIN df.rows : shock_mask(df.rows[i], shock_info)}
      after == {i \in DOMAIN df.rows : post_shock_mask(df.rows[i], shock_info)}
      since == [i \in after |-> df.rows[i].year - shock_info.end]
      flag == [i \in in_shock |-> regional_mask(df.rows[i], shock_info)]
      d1 == LocSetPlain(df, in_shock, "is_shock_period", TRUE)
      d2 == LocSetPlain(d1, in_shock, "shock_name", shock_info.name)
      d3 == LocSetPlain(d2, in_shock, "shock_type", shock_info.type)
      d4 == LocSetPlain(d3, in_shock, "shock_severity", shock_info.severity)
      d5 == LocSetNew(d4, after, YearsSinceCol(shock_info.name),
                      "int64", since)
  IN IF shock_info.regional_focus # {}
     THEN LocSetNew(d5, in_shock, "is_regional_focus", "bool", flag)
     ELSE d5

\* Body of the loop over MAJOR_SHOCKS.items() for one shock.
ApplyShock(df, shock_info) ==
  LET in_shock == {i \in DOMAIN df.rows : shock_mask(df.rows[i], shock_info)}
      after == {i \in DOMAIN df.rows : post_shock_mask(df.rows[i], shock_info)}
      in_focus == {i \in in_shock : regional_mask(df.rows[i], shock_info)}
      since == [i \in after |-> df.rows[i].year - shock_info.end]
      true == [i \in in_focus |-> TRUE]
      d1 == LocSetPlain(df, in_shock, "is_shock_period", TRUE)
      d2 == LocSetPlain(d1, in_shock, "shock_name", shock_info.name)
      d3 == LocSetPlain(d2, in_shock, "shock_type", shock_info.type)
      d4 == LocSetPlain(d3, in_shock, "shock_severity", shock_info.severity)
      d5 == LocSetNew(d4, after, YearsSinceCol(shock_info.name),
                      "int64", since)
  IN IF shock_info.regional_focus # {}
     THEN LocSetNew(d5, in_focus, "is_regional_focus", "bool", true)
     ELSE d5

\* Mutant: the catalog is walked from its last entry to its first.
RECURSIVE ApplyShocks_Reversed(_, _, _)
ApplyShocks_Reversed(df, catalog, i) ==
  IF i > Len(catalog) THEN df
  ELSE ApplyShocks_Reversed(ApplyShock(df, catalog[Len(catalog) - i + 1]),
                            catalog, i + 1)

\* for shock_name, shock_info in MAJOR_SHOCKS.items(), from entry i on.
RECURSIVE ApplyShocks(_, _, _)
ApplyShocks(df, catalog, i) ==
  IF i > Len(catalog) THEN df
  ELSE ApplyShocks(ApplyShock(df, catalog[i]), catalog, i + 1)

\* The four columns initialised for every row, then the loop.
AnnotateFrame(df, catalog) ==
  LET c0 == SetColumn(df, "is_shock_period", "bool", FALSE)
      c1 == SetColumn(c0, "shock_name", "object", "")
      c2 == SetColumn(c1, "shock_type", "object", "")
      c3 == SetColumn(c2, "shock_severity", "object", "")
  IN ApplyShocks(c3, catalog, 1)

\* Mutant: no df.copy(), the columns are written into the caller's frame.
add_shock_indicators_InPlace(df, catalog) ==
  [arg |-> AnnotateFrame(df, catalog),
   returned |-> AnnotateFrame(df, catalog),
   catalog |-> catalog]

\* One call: the caller's frame after the call (untouched, the function
\* works on df.copy()), the returned frame, and the catalog after the call.
add_shock_indicators(df, catalog) ==
  [arg |-> df,
   returned |-> AnnotateFrame(df, catalog),
   catalog |-> catalog]

\* ------------------------------------------------------------------------
\* Exact rationals for the float ratios
\* ------------------------------------------------------------------------
RECURSIVE GCD(_, _)
GCD(a, b) == IF b = 0 THEN a ELSE GCD(b, a % b)

\* n / d in lowest terms, n >= 0, d > 0.
Frac(n, d) ==
  LET g == GCD(n, d) IN [n |-> n \div g, d |-> d \div g]

RatAdd(x, y) == Frac(x.n * y.d + y.n * x.d, x.d * y.d)
RatMul(x, y) == Frac(x.n * y.n, x.d * y.d)

\* n1/d1 < n2/d2 by comparing continued-fraction expansions, so that no
\* product of two denominators is formed.
RECURSIVE FracLess(_, _, _, _)
FracLess(n1, d1, n2, d2) ==
  LET q1 == n1 \div d1
      q2 == n2 \div d2
      r1 == n1 % d1
      r2 == n2 % d2
  IN IF q1 # q2 THEN q1 < q2
     ELSE IF r2 = 0 THEN FALSE
     ELSE IF r1 = 0 THEN TRUE
     ELSE FracLess(d2, r2, d1, r1)

RatLess(x, y) == FracLess(x.n, x.d, y.n, y.d)
RatGeq(x, y) == ~RatLess(x, y)

\* ------------------------------------------------------------------------
\* calculate_data_quality_score
\* ------------------------------------------------------------------------
\* df.select_dtypes(include=[np.number]).columns
numeric_cols(df) ==
  {c \in DOMAIN df.dtype : df.dtype[c] \in {"int64", "float64"}}

\* df[country_col].unique(): the codes in order of first appearance.
unique(df) ==
  LET first == {i \in DOMAIN df.rows :
                  \A j \in 1..(i - 1) :
                     df.rows[j].country_code # df.rows[i].country_code}
  IN [k \in 1..Cardinality(first) |->
        df.rows[CHOOSE i \in first :
                  Cardinality({j \in first : j <= i}) = k].country_code]

\* df[df[country_col] == country]
country_data(df, country) ==
  LET same(r) == r.country_code = country IN SelectSeq(df.rows, same)

\* Number of non-missing cells of a numeric column: notna().sum()
NotNaCount(df, rows, col) ==
  IF df.dtype[col] = "int64" THEN Len(rows)
  ELSE Cardinality({i \in DOMAIN rows : rows[i][col] # NaN})

RECURSIVE SumNotNa(_, _, _)
SumNotNa(df, rows, cols) ==
  IF cols = {} THEN 0
  ELSE LET c == CHOOSE x \in cols : TRUE
       IN NotNaCount(df, rows, c) + SumNotNa(df, rows, cols \ {c})

\* np.mean of country_data[numeric_cols].notna().mean(), 0 without columns.
overall_completeness(df, rows) ==
  LET cols == numeric_cols(df)
  IN IF Cardinality(cols) > 0
     THEN Frac(SumNotNa(df, rows, cols), Len(rows) * Cardinality(cols))
     ELSE Frac(0, 1)

\* Mutant: the shocks are counted from the annotator's labels when the
\* frame carries them.
shock_coverage_FromLabels(rows, catalog) ==
  Cardinality({k \in DOMAIN catalog :
     \E i \in DOMAIN rows :
        IF "shock_name" \in DOMAIN rows[i]
        THEN rows[i].shock_name = catalog[k].name
        ELSE rows[i].year \in catalog[k].start .. catalog[k].end})

\* Number of shocks with at least one row of the country in their window:
\* country_data['year'].isin(range(start, end + 1)) is non-empty.
shock_coverage(rows, catalog) ==
  Cardinality({k \in DOMAIN catalog :
     \E i \in DOMAIN rows :
        rows[i].year \in catalog[k].start .. catalog[k].end})

\* Mutant: the shock threshold is MIN_SHOCK_COVERAGE = 4 of the config.
meets_criteria_MinShock4(year_coverage, completeness, coverage) ==
  /\ RatGeq(year_coverage, Frac(8, 10))
  /\ RatGeq(completeness, Frac(6, 10))
  /\ coverage >= 4

\* year_coverage >= 0.8 and overall_completeness >= 0.6 and
\* shock_coverage >= 3
meets_criteria(year_coverage, completeness, coverage) ==
  /\ RatGeq(year_coverage, Frac(8, 10))
  /\ RatGeq(completeness, Frac(6, 10))
  /\ coverage >= 3

\* 0.3 * year_coverage + 0.5 * overall_completeness + 0.2 * rate
quality_score(year_coverage, completeness, rate) ==
  RatAdd(RatAdd(RatMul(Frac(3, 10), year_coverage),
                RatMul(Frac(5, 10), completeness)),
         RatMul(Frac(2, 10), rate))

\* The dict appended to quality_metrics for one country.
QualityRecord(df, catalog, country) ==
  LET rows == country_data(df, country)
      total_years == Len(rows)
      expected_years == END_YEAR - START_YEAR + 1
      year_coverage == Frac(total_years, expected_years)
      completeness == overall_completeness(df, rows)
      coverage == shock_coverage(rows, catalog)
      rate == Frac(coverage, Len(catalog))
  IN [country_code |-> country,
      total_years |-> total_years,
      year_coverage |-> year_coverage,
      overall_completeness |-> completeness,
      shock_coverage |-> coverage,
      shock_coverage_rate |-> rate,
      quality_score |-> quality_score(year_coverage, completeness, rate),
      meets_criteria |-> meets_criteria(year_coverage, completeness, coverage)]

\* quality_metrics after the loop over the countries.
quality_metrics(df, catalog) ==
  LET cs == unique(df)
  IN [i \in DOMAIN cs |-> QualityRecord(df, catalog, cs[i])]

\* sort_values('quality_score', ascending=False) with the default
\* kind='quicksort', which is not stable: every descending arrangement of
\* the records is a possible outcome.
sort_values(metrics) ==
  LET n == Len(metrics)
      perms == {p \in [1..n -> 1..n] : \A i, j \in 1..n : i # j => p[i] # p[j]}
  IN {[i \in 1..n |-> metrics[p[i]]] : p \in
        {q \in perms : \A i, j \in 1..n :
            i < j => RatGeq(metrics[q[i]].quality_score,
                            metrics[q[j]].quality_score)}}

NotRun == [raised |-> "not_run", table |-> <<>>]

\* The possible outcomes of one call: the returned table, or the exception
\* the call ends in.
calculate_data_quality_score(df, catalog) ==
  IF Len(df.rows) > 0 /\ Len(catalog) = 0
  THEN {[raised |-> "ZeroDivisionError", table |-> <<>>]}
  ELSE IF Len(df.rows) = 0
  THEN {[raised |-> "KeyError", table |-> <<>>]}
  ELSE {[raised |-> "", table |-> t] :
          t \in sort_values(quality_metrics(df, catalog))}

\* ------------------------------------------------------------------------
\* State
\* ------------------------------------------------------------------------
VARIABLES
  panel,      \* the caller's raw panel (argument df)
  shocks,     \* the module-level catalog MAJOR_SHOCKS
  annotated,  \* DataFrame returned by add_shock_indicators, None before
  annQuality, \* outcome of calculate_data_quality_score(annotated)
  rawQuality, \* outcome of calculate_data_quality_score(panel)
  nblocks,    \* number of blocks collected into the panel
  pc          \* "collect" | "annotated" | "scored" | "done"

vars == <<panel, shocks, annotated, annQuality, rawQuality, nblocks, pc>>

Init ==
  /\ panel = EmptyPanel
  /\ shocks = MAJOR_SHOCKS
  /\ annotated = None
  /\ annQuality = NotRun
  /\ rawQuality = NotRun
  /\ nblocks = 0
  /\ pc = "collect"

\* Rows of one country for the years lo..hi, the indicator populated or not.
BlockRows(c, lo, hi, populated) ==
  [k \in 1..(hi - lo + 1) |->
     [country_code |-> c, year |-> lo + k - 1,
      gdp_per_capita |-> IF populated THEN <<lo + k - 1>> ELSE NaN]]

\* The data source hands over one more block of country-year rows.
AppendBlock(c, lo, hi, populated) ==
  /\ pc = "collect"
  /\ nblocks < MaxBlocks
  /\ lo <= hi
  /\ Len(panel.rows) + (hi - lo + 1) <= MaxRows
  /\ panel' = [panel EXCEPT !.rows = @ \o BlockRows(c, lo, hi, populated)]
  /\ nblocks' = nblocks + 1
  /\ UNCHANGED <<shocks, annotated, annQuality, rawQuality, pc>>

\* annotated = add_shock_indicators(panel)
Annotate ==
  /\ pc = "collect"
  /\ LET call == add_shock_indicators(panel, shocks)
     IN /\ annotated' = call.returned
        /\ panel' = call.arg
        /\ shocks' = call.catalog
  /\ pc' = "annotated"
  /\ UNCHANGED <<annQuality, rawQuality, nblocks>>

\* quality_df = calculate_data_quality_score(maddison_data), the call of
\* test_maddison_collection on the annotated panel.
ScoreAnnotated ==
  /\ pc = "annotated"
  /\ annQuality' \in calculate_data_quality_score(annotated, shocks)
  /\ pc' = "scored"
  /\ UNCHANGED <<panel, shocks, annotated, rawQuality, nblocks>>

\* calculate_data_quality_score(panel) on the raw panel.
ScoreRaw ==
  /\ pc = "scored"
  /\ rawQuality' \in calculate_data_quality_score(panel, shocks)
  /\ pc' = "done"
  /\ UNCHANGED <<panel, shocks, annotated, annQuality, nblocks>>

Next ==
  \/ \E c \in Countries, range \in YearRanges, populated \in BOOLEAN :
        AppendBlock(c, range[1], range[2], populated)
  \/ Annotate
  \/ ScoreAnnotated
  \/ ScoreRaw

Spec == Init /\ [][Next]_vars
\* ------------------------------------------------------------------------
\* Properties of add_shock_indicators
\* ------------------------------------------------------------------------
\* Indexes of the catalog entries whose window [start, end] contains year y.
Covering(y) ==
  {k \in DOMAIN MAJOR_SHOCKS :
     MAJOR_SHOCKS[k].start <= y /\ y <= MAJOR_SHOCKS[k].end}

Max(S) == CHOOSE m \in S : \A x \in S : x <= m

\* The row carries exactly the label fields of catalog entry k.
LabelledAs(r, k) ==
  /\ r.shock_name = MAJOR_SHOCKS[k].name
  /\ r.shock_type = MAJOR_SHOCKS[k].type
  /\ r.shock_severity = MAJOR_SHOCKS[k].severity

\* Entry k shares no year with any other entry of the catalog.
Isolated(k) ==
  \A j \in DOMAIN MAJOR_SHOCKS :
     j # k => \/ MAJOR_SHOCKS[j].end < MAJOR_SHOCKS[k].start
              \/ MAJOR_SHOCKS[k].end < MAJOR_SHOCKS[j].start

\* C1: every returned row whose year lies in the windows of two or more
\* shocks carries the name, type and severity of the covering shock that
\* comes last in catalog order, all three from that one shock.
C1_OverlapLastWins ==
  pc # "collect" =>
    \A i \in DOMAIN annotated.rows :
       LET r == annotated.rows[i]
       IN Cardinality(Covering(r.year)) >= 2 =>
            LabelledAs(r, Max(Covering(r.year)))

\* A returned row of 2010, the year shared by the 2008 and 2010 shocks,
\* labelled with the later of the two.
C1_Witness ==
  /\ pc # "collect"
  /\ \E i \in DOMAIN annotated.rows :
        /\ annotated.rows[i].year = 2010
        /\ Covering(2010) = {3, 4}
        /\ annotated.rows[i].shock_name = "european_debt_crisis_2010"
        /\ annotated.rows[i].shock_type = "sovereign_debt"

\* C2: for a shock whose window overlaps no other window, every row with
\* start <= year <= end is returned flagged with exactly that shock's name,
\* type and severity; every row in no window is returned unflagged with the
\* three labels empty.
C2_AnnotatorCoverage ==
  pc # "collect" =>
    \A i \in DOMAIN annotated.rows :
       LET r == annotated.rows[i]
       IN /\ \A k \in Covering(r.year) :
               Isolated(k) => r.is_shock_period = TRUE /\ LabelledAs(r, k)
          /\ Covering(r.year) = {} =>
               /\ r.is_shock_period = FALSE
               /\ r.shock_name = ""
               /\ r.shock_type = ""
               /\ r.shock_severity = ""

\* Rows on both bounds of the isolated 1997-1999 window are labelled, the
\* rows just outside it are not.
C2_Witness ==
  /\ pc # "collect"
  /\ Isolated(1)
  /\ \E i, j, m, n \in DOMAIN annotated.rows :
        /\ annotated.rows[i].year = 1997
        /\ annotated.rows[i].shock_name = "asian_financial_crisis_1997"
        /\ annotated.rows[j].year = 1999
        /\ annotated.rows[j].is_shock_period = TRUE
        /\ annotated.rows[m].year = 1996
        /\ annotated.rows[m].shock_name = ""
        /\ annotated.rows[n].year = 2000
        /\ annotated.rows[n].is_shock_period = FALSE

\* C3: for every shock S and every returned row, years_since_<S> is
\* year - end(S) when year > end(S) and missing when year <= end(S); so
\* between rows of successive years after end(S) it grows by exactly 1.
C3_YearsSince ==
  pc # "collect" =>
    \A k \in DOMAIN MAJOR_SHOCKS :
       LET col == "years_since_" \o MAJOR_SHOCKS[k].name
           end == MAJOR_SHOCKS[k].end
           measured == {<<annotated.rows[i].year, annotated.rows[i][col]>> :
                          i \in DOMAIN annotated.rows}
       IN /\ \A m \in measured :
               /\ m[1] > end => m[2] = <<m[1] - end>>
               /\ m[1] <= end => m[2] = <<>>
          /\ \A a, b \in measured :
               (a[1] > end /\ b[1] = a[1] + 1) => b[2] = <<a[2][1] + 1>>

\* A row of 2010, inside two shock windows, counts 8 years since the 2001
\* shock while the measure of the 2008 shock, which ends in 2010, is missing;
\* the row of 2011 counts 1.
C3_Witness ==
  /\ pc # "collect"
  /\ \E i, j \in DOMAIN annotated.rows :
        /\ annotated.rows[i].year = 2010
        /\ annotated.rows[i].is_shock_period = TRUE
        /\ annotated.rows[i].years_since_dotcom_recession_2001 = <<8>>
        /\ annotated.rows[i].years_since_global_financial_crisis_2008 = <<>>
        /\ annotated.rows[j].year = 2011
        /\ annotated.rows[j].years_since_global_financial_crisis_2008 = <<1>>

\* C10: a call of add_shock_indicators returns as many rows as it was
\* given, in the same order, with every column of the input unchanged in
\* every row, and leaves the caller's panel and the catalog as they were.
C10_Frame ==
  [][(pc = "collect" /\ pc' = "annotated") =>
       /\ panel' = panel
       /\ shocks' = shocks
       /\ Len(annotated'.rows) = Len(panel.rows)
       /\ \A i \in DOMAIN panel.rows :
            \A col \in DOMAIN panel.dtype :
               annotated'.rows[i][col] = panel.rows[i][col]
       /\ \A col \in DOMAIN panel.dtype :
            annotated'.dtype[col] = panel.dtype[col]]_vars

\* An annotated panel of two blocks next to the caller's panel, which still
\* has only its three columns.
C10_Witness ==
  /\ pc = "annotated"
  /\ nblocks = 2
  /\ Len(annotated.rows) = Len(panel.rows)
  /\ DOMAIN panel.dtype = {"country_code", "year", "gdp_per_capita"}
  /\ "shock_name" \in DOMAIN annotated.dtype
  /\ \A i \in DOMAIN panel.rows :
        DOMAIN panel.rows[i] = {"country_code", "year", "gdp_per_capita"}
\* ------------------------------------------------------------------------
\* Properties of calculate_data_quality_score
\* ------------------------------------------------------------------------
\* The quality records returned so far, for the annotated and the raw panel.
Records ==
  {annQuality.table[i] : i \in DOMAIN annQuality.table}
    \cup {rawQuality.table[i] : i \in DOMAIN rawQuality.table}

\* The years of the caller's rows of one country.
RowsOf(c) == {j \in DOMAIN panel.rows : panel.rows[j].country_code = c}

YearsOf(c) == {panel.rows[i].year : i \in RowsOf(c)}

\* Two rows of the country carry the same (country_code, year) pair.
HasDuplicate(c) ==
  \E i, j \in RowsOf(c) : i # j /\ panel.rows[i].year = panel.rows[j].year

\* C4: every quality record has shock_coverage_rate in [0,1], and
\* year_coverage (hence quality_score) exceeds 1 only if the country's rows
\* hold a duplicate (country_code, year) pair, whatever years they carry.
C4_RatioBounds ==
  \A q \in Records :
     /\ q.shock_coverage_rate.n <= q.shock_coverage_rate.d
     /\ ~HasDuplicate(q.country_code) =>
          /\ q.year_coverage.n <= q.year_coverage.d
          /\ q.overall_completeness.n <= q.overall_completeness.d
          /\ q.quality_score.n <= q.quality_score.d

\* C5: a call on an empty panel returns normally with an empty ranking.
C5_DegenerateInputsReturn ==
  /\ annQuality.raised \in {"not_run", ""}
  /\ rawQuality.raised \in {"not_run", ""}

FullyCovered(c) ==
  /\ YearsOf(c) = START_YEAR .. END_YEAR
  /\ Cardinality(RowsOf(c)) = END_YEAR - START_YEAR + 1
  /\ \A i \in RowsOf(c) : panel.rows[i].gdp_per_capita # <<>>

\* C7: for a fully covered, fully populated country the record has
\* year_coverage = 1, overall_completeness = 1 and quality_score =
\* 0.3 + 0.5 + 0.2 * shock_coverage_rate, for the raw and for the annotated
\* panel alike.
C7_FullCoverageScore ==
  \A q \in Records :
     FullyCovered(q.country_code) =>
       /\ q.year_coverage = [n |-> 1, d |-> 1]
       /\ q.overall_completeness = [n |-> 1, d |-> 1]
       /\ q.quality_score.n * 10 * q.shock_coverage_rate.d =
            q.quality_score.d * (8 * q.shock_coverage_rate.d
                                   + 2 * q.shock_coverage_rate.n)

\* C8: shock_coverage is the number of shocks with at least one of the
\* country's rows in their window, counted from the year column alone, so
\* it is the same for the raw and the annotated panel; shock_coverage_rate
\* is shock_coverage over the number of shocks of the catalog.
C8_ShockCoverage ==
  /\ \A q \in Records :
        LET years == YearsOf(q.country_code)
        IN /\ q.shock_coverage =
                Cardinality({k \in DOMAIN MAJOR_SHOCKS :
                               \E y \in years : k \in Covering(y)})
           /\ q.shock_coverage_rate.n * Len(MAJOR_SHOCKS) =
                q.shock_coverage * q.shock_coverage_rate.d
  /\ pc = "done" =>
        \A i \in DOMAIN annQuality.table : \A j \in DOMAIN rawQuality.table :
           annQuality.table[i].country_code = rawQuality.table[j].country_code
             => annQuality.table[i].shock_coverage
                  = rawQuality.table[j].shock_coverage

\* A country whose only year is 2010 covers both shocks of that year, in the
\* record of the annotated panel and in that of the raw panel.
C8_Witness ==
  /\ pc = "done"
  /\ \E i \in DOMAIN annQuality.table : \E j \in DOMAIN rawQuality.table :
        /\ annQuality.table[i].country_code = rawQuality.table[j].country_code
        /\ YearsOf(annQuality.table[i].country_code) = {2010}
        /\ annQuality.table[i].shock_coverage = 2
        /\ rawQuality.table[j].shock_coverage_rate = [n |-> 2, d |-> 5]

\* Position of the first row of country c in the caller's panel.
FirstRow(c) == CHOOSE i \in RowsOf(c) : \A j \in RowsOf(c) : i <= j

\* The table holds one record per country of the panel, by non-increasing
\* quality_score, records of equal score in first-encounter order.
StablyRanked(t) ==
  /\ {t[i].country_code : i \in DOMAIN t}
       = {panel.rows[i].country_code : i \in DOMAIN panel.rows}
  /\ \A i, j \in DOMAIN t :
        i < j =>
          /\ t[i].country_code # t[j].country_code
          /\ ~RatLess(t[i].quality_score, t[j].quality_score)
          /\ t[i].quality_score = t[j].quality_score =>
               FirstRow(t[i].country_code) < FirstRow(t[j].country_code)

\* C9: the returned table holds one record per distinct country code, by
\* non-increasing quality_score, equal scores in the order in which their
\* countries were first encountered in the input panel.
C9_StableRanking ==
  /\ annQuality.raised = "" => StablyRanked(annQuality.table)
  /\ rawQuality.raised = "" => StablyRanked(rawQuality.table)
\* ------------------------------------------------------------------------
\* Regional focus
\* ------------------------------------------------------------------------
\* Some shock with a non-empty regional_focus has year y in its window and
\* country c in its focus.
InSomeFocus(c, y) ==
  \E k \in Covering(y) :
     /\ MAJOR_SHOCKS[k].regional_focus # {}
     /\ c \in MAJOR_SHOCKS[k].regional_focus

\* C11: after all shocks a returned row has is_regional_focus = true exactly
\* when some shock with a non-empty regional_focus contains the row's year
\* in its window and the row's country in its focus; a flag set by one shock
\* survives a later overlapping shock that relabels the row, a shock with an
\* empty focus sets it for no row, and every other row has the flag missing,
\* not false.
C11_RegionalFocus ==
  pc # "collect" =>
    \A i \in DOMAIN annotated.rows :
       LET r == annotated.rows[i]
       IN /\ "is_regional_focus" \in DOMAIN r
          /\ InSomeFocus(r.country_code, r.year) => r.is_regional_focus = <<TRUE>>
          /\ ~InSomeFocus(r.country_code, r.year) => r.is_regional_focus = <<>>

\* A USA row of 2010 flagged by the 2008 shock and relabelled by the 2010
\* shock, whose focus does not hold USA, together with a USA row of 2021
\* inside the focus-less 2020 shock and a CHN row of 2010, both unflagged.
C11_Witness ==
  /\ pc # "collect"
  /\ "USA" \in MAJOR_SHOCKS[3].regional_focus
  /\ "USA" \notin MAJOR_SHOCKS[4].regional_focus
  /\ \E i, j, m \in DOMAIN annotated.rows :
        /\ annotated.rows[i].country_code = "USA"
        /\ annotated.rows[i].year = 2010
        /\ annotated.rows[i].shock_name = "european_debt_crisis_2010"
        /\ annotated.rows[i].is_regional_focus = <<TRUE>>
        /\ annotated.rows[j].country_code = "USA"
        /\ annotated.rows[j].year = 2021
        /\ annotated.rows[j].shock_name = "covid_pandemic_2020"
        /\ annotated.rows[j].is_regional_focus = <<>>
        /\ annotated.rows[m].country_code = "CHN"
        /\ annotated.rows[m].year = 2010
        /\ annotated.rows[m].is_shock_period = TRUE
        /\ annotated.rows[m].is_regional_focus = <<>>
====
